---- MODULE Spec2Model ----
(***************************************************************************)
(* Model of mocap_optitrack's OptiTrackRosBridge (src/src/mocap_node.cpp): *)
(* the constructor, reconfigureCallback(), initialize(), run(),            *)
(* updateDataModelFromServer() and main().                                 *)
(*                                                                         *)
(* The node is single threaded: reconfigureCallback() is run by            *)
(* ros::spinOnce() on the thread that called it, so a callback delivered   *)
(* inside initialize()'s handshake loop or inside run() re-enters          *)
(* initialize() on top of the suspended caller.  `stack` is that call      *)
(* stack: one program position per active frame, the last element being    *)
(* the frame that executes; every frame below it waits in a call.          *)
(* ros::ok() is turned false asynchronously (signal), at any point.        *)
(***************************************************************************)
EXTENDS Integers, Sequences, FiniteSets, TLC

\* ---------------------------------------------------------------- bounds
\* Number of reconfiguration requests the environment delivers after construction.
MaxReconf == 2
\* Number of datagrams the environment delivers to run()'s receive.
MaxDatagrams == 2

\* ------------------------------------------------------- input domains
\* data_port / command_port / multicast_address triples a description can carry.
Endpoints ==
  { [commandPort |-> 1511, dataPort |-> 1510, multicastIpAddress |-> "239.255.42.99"],
    [commandPort |-> 1513, dataPort |-> 1512, multicastIpAddress |-> "239.255.42.100"] }

\* Values of a MocapOptitrackConfig handed to reconfigureCallback.
Configs ==
  { [enable_optitrack |-> e, command_port |-> p.commandPort, data_port |-> p.dataPort,
     multicast_address |-> p.multicastIpAddress] : e \in BOOLEAN, p \in Endpoints }

\* NatNet versions (major number) a server-info message or a version hint carries.
Versions == {2, 3}

\* serverDescription.version as read from rosparam: empty, or a version.
VersionHints == {<<>>, <<3>>}

\* ServerDescription values NodeConfiguration::fromRosParam can produce.
ServerDescriptions ==
  { [enableOptitrack |-> e, commandPort |-> p.commandPort, dataPort |-> p.dataPort,
     multicastIpAddress |-> p.multicastIpAddress, version |-> h]
      : e \in BOOLEAN, p \in Endpoints, h \in VersionHints }

\* A default-constructed ServerDescription (the member before the constructor body assigns it).
DefaultServerDescription ==
  [enableOptitrack |-> FALSE, commandPort |-> 0, dataPort |-> 0,
   multicastIpAddress |-> "", version |-> <<>>]

\* Rigid-body id sequences a data frame can carry.
RigidBodyLists == {<<>>, <<1, 2>>, <<3>>}

\* Datagrams the server can deliver.
Messages ==
  { [type |-> "serverinfo", version |-> v, bodies |-> <<>>] : v \in Versions }
    \cup { [type |-> "frame", version |-> 0, bodies |-> b] : b \in RigidBodyLists }
    \cup { [type |-> "unknown", version |-> 0, bodies |-> <<>>] }

\* What one non-blocking recv() can return: nothing (<<>>) or one datagram.
RecvResults == {<<>>} \cup { <<m>> : m \in Messages }

\* ------------------------------------------------------------ data model
\* A default-constructed DataModel: no server info, no rigid bodies.
NewDataModel == [hasValidServerInfo |-> FALSE, natNetVersion |-> 0, rigidBodies |-> <<>>]

hasServerInfo(dm) == dm.hasValidServerInfo

getNatNetVersion(dm) == dm.natNetVersion

setVersions(dm, v) == [dm EXCEPT !.hasValidServerInfo = TRUE, !.natNetVersion = v]

clear(dm) == [dm EXCEPT !.rigidBodies = <<>>]

\* natnet::MessageDispatcher::dispatch: server-info sets ServerInfo (write-once per
\* epoch); a data frame is decoded only once ServerInfo is known and overwrites the
\* rigid-body slot; anything else is ignored.
dispatch(msg, dm) ==
  CASE msg.type = "serverinfo" ->
         IF hasServerInfo(dm) THEN dm ELSE setVersions(dm, msg.version)
    [] msg.type = "frame" ->
         IF hasServerInfo(dm) THEN [dm EXCEPT !.rigidBodies = msg.bodies] ELSE dm
    [] OTHER -> dm

\* new UdpMulticastSocket(port, address): a transport bound to (port, address).
UdpMulticastSocket(port, address) == [dataPort |-> port, multicastIpAddress |-> address]

\* ----------------------------------------------------------------- state
VARIABLES
  stack,                     \* call stack of program positions, executing frame last
  serverDescription,         \* OptiTrackRosBridge::serverDescription
  multicastClientSocketPtr,  \* unique_ptr: <<>> (null) or <<socket>>
  newSocket,                 \* the socket new'ed at line 77, not yet owned by the pointer
  dataModel,                 \* OptiTrackRosBridge::dataModel
  publishDispatcherPtr,      \* unique_ptr: <<>> (null) or <<version it was built with>>
  initialized,               \* OptiTrackRosBridge::initialized
  rosOk,                     \* ros::ok()
  msgBuffer,                 \* what the last recv() returned: <<>> or <<datagram>>
  publishCount,              \* number of publish() calls on the dispatcher
  lastPublished,             \* rigid bodies handed to the last publish()
  received,                  \* number of datagrams run() has received
  reconfCount,               \* number of reconfiguration requests delivered
  lastRequest                \* last connection request sent: <<>> or <<[socket, port]>>

vars == <<stack, serverDescription, multicastClientSocketPtr, newSocket, dataModel,
          publishDispatcherPtr, initialized, rosOk, msgBuffer, publishCount,
          lastPublished, received, reconfCount, lastRequest>>

Top == stack[Len(stack)]

Goto(pc) == [stack EXCEPT ![Len(stack)] = pc]

Return == SubSeq(stack, 1, Len(stack) - 1)

\* initialize() is called with the caller resuming at `ret`.
CallInitialize(ret) == Append(Goto(ret), "init_enter")

HandshakePcs == {"hs_test", "hs_send", "hs_recv", "hs_spin"}
RunPcs == {"run_test", "run_body", "run_publish", "run_spin"}

\* Before the constructor body: members default-constructed; `initialized` has no
\* initializer, so it holds an arbitrary value.
Init ==
  /\ stack = <<"ctor_setCallback">>
  /\ serverDescription = DefaultServerDescription
  /\ multicastClientSocketPtr = <<>>
  /\ newSocket = <<>>
  /\ dataModel = NewDataModel
  /\ publishDispatcherPtr = <<>>
  /\ initialized \in BOOLEAN
  /\ rosOk = TRUE
  /\ msgBuffer = <<>>
  /\ publishCount = 0
  /\ lastPublished = <<>>
  /\ received = 0
  /\ reconfCount = 0
  /\ lastRequest = <<>>

\* ------------------------------------------------------------ operations
\* reconfigureCallback, lines 63-66: four fields are overwritten, version is kept.
reconfigureFields(descr, config) ==
  [descr EXCEPT !.enableOptitrack = config.enable_optitrack,
                !.commandPort = config.command_port,
                !.dataPort = config.data_port,
                !.multicastIpAddress = config.multicast_address]

\* Constructor, line 56: dynamic_reconfigure's setCallback invokes the callback at once
\* with the current configuration, before serverDescription is assigned.
ConstructorSetCallback ==
  /\ Top = "ctor_setCallback"
  /\ \E config \in Configs :
       serverDescription' = reconfigureFields(serverDescription, config)
  /\ stack' = CallInitialize("ctor_assign")
  /\ UNCHANGED <<multicastClientSocketPtr, newSocket, dataModel, publishDispatcherPtr,
                 initialized, rosOk, msgBuffer, publishCount, lastPublished, received,
                 reconfCount, lastRequest>>

\* Constructor, lines 57-58: serverDescription = serverDescr (from rosparam).
ConstructorAssign ==
  /\ Top = "ctor_assign"
  /\ \E serverDescr \in ServerDescriptions : serverDescription' = serverDescr
  /\ stack' = Goto("main_initialize")
  /\ UNCHANGED <<multicastClientSocketPtr, newSocket, dataModel, publishDispatcherPtr,
                 initialized, rosOk, msgBuffer, publishCount, lastPublished, received,
                 reconfCount, lastRequest>>

\* main, line 191: node.initialize().
MainInitialize ==
  /\ Top = "main_initialize"
  /\ stack' = CallInitialize("main_run")
  /\ UNCHANGED <<serverDescription, multicastClientSocketPtr, newSocket, dataModel,
                 publishDispatcherPtr, initialized, rosOk, msgBuffer, publishCount,
                 lastPublished, received, reconfCount, lastRequest>>

\* main, line 192: node.run().
MainRun ==
  /\ Top = "main_run"
  /\ stack' = Goto("run_test")
  /\ UNCHANGED <<serverDescription, multicastClientSocketPtr, newSocket, dataModel,
                 publishDispatcherPtr, initialized, rosOk, msgBuffer, publishCount,
                 lastPublished, received, reconfCount, lastRequest>>

\* Callbacks delivered from another thread: at any point of the two loops.
callbackPoints_Anywhere == HandshakePcs \cup RunPcs

\* Pending callbacks run on the calling thread inside ros::spinOnce(), lines 99 and 139.
callbackPoints == {"hs_spin", "run_spin"}

\* reconfigureCallback run by ros::spinOnce() (lines 99 and 139) for one pending request.
reconfigureCallback ==
  /\ Top \in callbackPoints
  /\ reconfCount < MaxReconf
  /\ \E config \in Configs :
       serverDescription' = reconfigureFields(serverDescription, config)
  /\ stack' = CallInitialize(Top)
  /\ reconfCount' = reconfCount + 1
  /\ UNCHANGED <<multicastClientSocketPtr, newSocket, dataModel, publishDispatcherPtr,
                 initialized, rosOk, msgBuffer, publishCount, lastPublished, received, lastRequest>>

\* reconfigureCallback run by ros::spinOnce() (line 139) while streaming, when the
\* UdpMulticastSocket constructor of line 76 fails to bind: lines 63-66 have already
\* overwritten the description; the failure leaves initialize() before reset(), so the
\* old socket, the dispatcher and the flag stay, and the failure is reported to the
\* requester.
reconfigureCallbackBindFails ==
  /\ stack = <<"run_spin">>
  /\ initialized
  /\ reconfCount < MaxReconf
  /\ \E config \in Configs :
       /\ config.enable_optitrack
       /\ serverDescription' = reconfigureFields(serverDescription, config)
  /\ reconfCount' = reconfCount + 1
  /\ UNCHANGED <<stack, multicastClientSocketPtr, newSocket, dataModel,
                 publishDispatcherPtr, initialized, rosOk, msgBuffer, publishCount,
                 lastPublished, received, lastRequest>>

\* Line 112 writing the wrong value: the disabled branch sets the flag.
disabledFlag_Set(init) == TRUE

\* Line 112 missing: the disabled branch leaves the flag as it was.
disabledFlag_Kept(init) == init

\* initialize, line 112: the flag's value on the disabled branch.
disabledFlag(init) == FALSE

\* initialize, lines 73-78 and 109-113: the enabled branch constructs the new socket
\* (the argument of reset() is evaluated first); the disabled branch only clears the flag.
InitializeEnter ==
  /\ Top = "init_enter"
  /\ IF serverDescription.enableOptitrack
       THEN /\ newSocket' = <<UdpMulticastSocket(serverDescription.dataPort,
                                                 serverDescription.multicastIpAddress)>>
            /\ stack' = Goto("init_reset")
            /\ UNCHANGED initialized
       ELSE /\ initialized' = disabledFlag(initialized)
            /\ stack' = Return
            /\ UNCHANGED newSocket
  /\ UNCHANGED <<serverDescription, multicastClientSocketPtr, dataModel,
                 publishDispatcherPtr, rosOk, msgBuffer, publishCount, lastPublished,
                 received, reconfCount, lastRequest>>

\* Lines 80-83 missing: the version from rosparam is not applied.
applyVersionHint_Ignored(dm, version) == dm

\* initialize, lines 80-83: a non-empty version pre-seeds the data model.
applyVersionHint(dm, version) ==
  IF version # <<>> THEN setVersions(dm, version[1]) ELSE dm

\* initialize, lines 76-83: reset() takes the new socket and destroys the old one;
\* a non-empty version pre-seeds the data model.
InitializeReset ==
  /\ Top = "init_reset"
  /\ multicastClientSocketPtr' = newSocket
  /\ newSocket' = <<>>
  /\ dataModel' = applyVersionHint(dataModel, serverDescription.version)
  /\ stack' = Goto("hs_test")
  /\ UNCHANGED <<serverDescription, publishDispatcherPtr, initialized, rosOk, msgBuffer,
                 publishCount, lastPublished, received, reconfCount, lastRequest>>

\* Line 87 with the negation lost: loop while server info is present.
handshakeLoopCond_Negated(ok, dm) == ok /\ hasServerInfo(dm)

\* Line 87 as a loop that never retries.
handshakeLoopCond_GivesUp(ok, dm) == FALSE

\* Line 87 without the ros::ok() test.
handshakeLoopCond_IgnoresShutdown(ok, dm) == ~hasServerInfo(dm)

\* Line 87 without the hasServerInfo() test.
handshakeLoopCond_IgnoresServerInfo(ok, dm) == ok

\* initialize, line 87: the handshake loop's condition.
handshakeLoopCond(ok, dm) == ok /\ ~hasServerInfo(dm)

HandshakeTest ==
  /\ Top = "hs_test"
  /\ stack' = Goto(IF handshakeLoopCond(rosOk, dataModel) THEN "hs_send" ELSE "init_finish")
  /\ UNCHANGED <<serverDescription, multicastClientSocketPtr, newSocket, dataModel,
                 publishDispatcherPtr, initialized, rosOk, msgBuffer, publishCount,
                 lastPublished, received, reconfCount, lastRequest>>

\* initialize, lines 89-95: serialize and send one connection request.
HandshakeSend ==
  /\ Top = "hs_send"
  /\ multicastClientSocketPtr # <<>>
  /\ lastRequest' = <<[socket |-> multicastClientSocketPtr[1],
                       port |-> serverDescription.commandPort]>>
  /\ stack' = Goto("hs_recv")
  /\ UNCHANGED <<serverDescription, multicastClientSocketPtr, newSocket, dataModel,
                 publishDispatcherPtr, initialized, rosOk, msgBuffer, publishCount,
                 lastPublished, received, reconfCount>>

\* updateDataModelFromServer, lines 147-160: the data model after a recv() returning r.
updateDataModelFromServer(r, dm) == IF Len(r) > 0 THEN dispatch(r[1], dm) ELSE dm

\* Lines 148-160 returning true also when nothing was received.
updateReturn_Always(r) == TRUE

\* updateDataModelFromServer's return value, lines 148-160.
updateReturn(r) == Len(r) > 0

\* initialize, lines 96-97: receive once, then pause.
HandshakeRecv ==
  /\ Top = "hs_recv"
  /\ multicastClientSocketPtr # <<>>
  /\ \E r \in RecvResults :
       /\ msgBuffer' = r
       /\ dataModel' = updateDataModelFromServer(r, dataModel)
  /\ stack' = Goto("hs_spin")
  /\ UNCHANGED <<serverDescription, multicastClientSocketPtr, newSocket,
                 publishDispatcherPtr, initialized, rosOk, publishCount, lastPublished,
                 received, reconfCount, lastRequest>>

\* initialize, lines 99-100: ros::spinOnce() returns, back to the loop test.
HandshakeSpinDone ==
  /\ Top = "hs_spin"
  /\ stack' = Goto("hs_test")
  /\ UNCHANGED <<serverDescription, multicastClientSocketPtr, newSocket, dataModel,
                 publishDispatcherPtr, initialized, rosOk, msgBuffer, publishCount,
                 lastPublished, received, reconfCount, lastRequest>>

\* Lines 102-105 as a dispatcher that is built once and kept by later initialize() calls.
newPublishDispatcher_BuiltOnce(old, dm) ==
  IF old # <<>> THEN old ELSE <<getNatNetVersion(dm)>>

\* initialize, lines 102-105: reset() to a new dispatcher built with the model's version.
newPublishDispatcher(old, dm) == <<getNatNetVersion(dm)>>

\* initialize, lines 102-107: build the dispatcher from the model's version, set the flag.
InitializeFinish ==
  /\ Top = "init_finish"
  /\ publishDispatcherPtr' = newPublishDispatcher(publishDispatcherPtr, dataModel)
  /\ initialized' = TRUE
  /\ stack' = Return
  /\ UNCHANGED <<serverDescription, multicastClientSocketPtr, newSocket, dataModel, rosOk,
                 msgBuffer, publishCount, lastPublished, received, reconfCount, lastRequest>>

\* run, line 118: the loop's condition.
runLoopCond(ok) == ok

RunTest ==
  /\ Top = "run_test"
  /\ stack' = Goto(IF runLoopCond(rosOk) THEN "run_body" ELSE "done")
  /\ UNCHANGED <<serverDescription, multicastClientSocketPtr, newSocket, dataModel,
                 publishDispatcherPtr, initialized, rosOk, msgBuffer, publishCount,
                 lastPublished, received, reconfCount, lastRequest>>

\* run, line 120: the loop body receives only when the flag is set.
runReceives(init) == init

\* run, lines 120-138: receive when initialized, otherwise sleep.
RunBody ==
  /\ Top = "run_body"
  /\ IF runReceives(initialized)
       THEN /\ multicastClientSocketPtr # <<>>
            /\ \E r \in RecvResults :
                 /\ Len(r) > 0 => received < MaxDatagrams
                 /\ msgBuffer' = r
                 /\ dataModel' = updateDataModelFromServer(r, dataModel)
                 /\ received' = received + Len(r)
                 /\ stack' = Goto(IF updateReturn(r) THEN "run_publish" ELSE "run_spin")
       ELSE /\ stack' = Goto("run_spin")
            /\ UNCHANGED <<msgBuffer, dataModel, received>>
  /\ UNCHANGED <<serverDescription, multicastClientSocketPtr, newSocket,
                 publishDispatcherPtr, initialized, rosOk, publishCount, lastPublished,
                 reconfCount, lastRequest>>

\* Line 127 with a dispatcher that reads the model's slot only after line 130 cleared it.
publishArgument_AfterClear(dm) == clear(dm).rigidBodies

\* run, line 127: the sequence publish() works on, read during the call.
publishArgument(dm) == dm.rigidBodies

\* Line 130 missing: the model is left as decoded.
afterPublish_NoClear(dm) == dm

\* run, line 130: dataModel.clear() once publish() has returned.
afterPublish(dm) == clear(dm)

\* run, lines 126-130: publish the model's rigid bodies, then clear the model.
RunPublish ==
  /\ Top = "run_publish"
  /\ publishDispatcherPtr # <<>>
  /\ publishCount' = publishCount + 1
  /\ lastPublished' = publishArgument(dataModel)
  /\ dataModel' = afterPublish(dataModel)
  /\ stack' = Goto("run_spin")
  /\ UNCHANGED <<serverDescription, multicastClientSocketPtr, newSocket,
                 publishDispatcherPtr, initialized, rosOk, msgBuffer, received,
                 reconfCount, lastRequest>>

\* run, lines 139-140: ros::spinOnce() returns, back to the loop test.
RunSpinDone ==
  /\ Top = "run_spin"
  /\ stack' = Goto("run_test")
  /\ UNCHANGED <<serverDescription, multicastClientSocketPtr, newSocket, dataModel,
                 publishDispatcherPtr, initialized, rosOk, msgBuffer, publishCount,
                 lastPublished, received, reconfCount, lastRequest>>

\* The shutdown signal: ros::ok() becomes false and stays false.
Shutdown ==
  /\ rosOk
  /\ Top # "done"
  /\ rosOk' = FALSE
  /\ UNCHANGED <<stack, serverDescription, multicastClientSocketPtr, newSocket, dataModel,
                 publishDispatcherPtr, initialized, msgBuffer, publishCount, lastPublished,
                 received, reconfCount, lastRequest>>

\* Every step the program itself takes.
Program ==
  \/ ConstructorSetCallback
  \/ ConstructorAssign
  \/ MainInitialize
  \/ MainRun
  \/ reconfigureCallback
  \/ reconfigureCallbackBindFails
  \/ InitializeEnter
  \/ InitializeReset
  \/ HandshakeTest
  \/ HandshakeSend
  \/ HandshakeRecv
  \/ HandshakeSpinDone
  \/ InitializeFinish
  \/ RunTest
  \/ RunBody
  \/ RunPublish
  \/ RunSpinDone

Next == Program \/ Shutdown

Spec == Init /\ [][Next]_vars

\* The thread keeps running: it takes a step whenever it has one.
FairSpec == Spec /\ WF_vars(Program)

\* A valid server-info datagram is received by the handshake loop.
ServerInfoDelivered ==
  HandshakeRecv /\ msgBuffer' # <<>> /\ msgBuffer'[1].type = "serverinfo"

\* The thread keeps running, and a server the handshake keeps polling does deliver
\* its server-info reply.
ServerFairSpec == Spec /\ WF_vars(Program) /\ SF_vars(ServerInfoDelivered)

\* ------------------------------------------------------------ properties
\* The executing frame is an initialize() entered from reconfigureCallback in spinOnce.
InReconfiguration ==
  Len(stack) > 1 /\ stack[Len(stack) - 1] \in {"hs_spin", "run_spin"}

\* The constructor has returned: main() is in initialize() or run().
Constructed == stack[1] \notin {"ctor_setCallback", "ctor_assign"}

\* main() is inside run() (possibly below callback frames).
InRun == stack[1] \in RunPcs

\* Lifecycle Streaming: the flag is set and the publish dispatcher exists.
Streaming == initialized /\ publishDispatcherPtr # <<>>

\* Lifecycle Disabled: run() is executing with the flag clear and a disabled description.
Disabled ==
  Len(stack) = 1 /\ InRun /\ ~initialized /\ ~serverDescription.enableOptitrack

\* Number of transports that exist (are bound) at once.
OpenTransports == Len(multicastClientSocketPtr) + Len(newSocket)

\* C1: as long as the data model has no ServerInfo, publish() has never been invoked,
\* whatever datagrams were received, whatever reconfigurations and shutdown happened.
C1_NoPublishBeforeServerInfo ==
  ~hasServerInfo(dataModel) => publishCount = 0

\* C1 witness: the handshake received a data frame before any ServerInfo, nothing published.
C1_Witness ==
  /\ Top = "hs_spin"
  /\ msgBuffer # <<>> /\ msgBuffer[1].type = "frame" /\ msgBuffer[1].bodies # <<>>
  /\ ~hasServerInfo(dataModel)
  /\ publishCount = 0

\* C2 (as claimed): when a reconfiguration with enabled = true has entered initialize()'s
\* enabled branch, the old epoch's ServerInfo and publish dispatcher are gone.
C2_ReconfigurationDiscardsEpoch ==
  (InRun /\ InReconfiguration /\ Top = "init_reset")
    => (~hasServerInfo(dataModel) /\ publishDispatcherPtr = <<>>)

\* C3 (as claimed): while a description is switched under run(), at no time are two
\* transports open.
C3_AtMostOneTransport ==
  InRun => OpenTransports <= 1

\* C4: a disabling reconfiguration delivered to run() while Streaming leaves run() with
\* the flag clear; while run() has the flag clear publish() is not invoked, and the flag
\* is only set again by a reconfiguration completing initialize()'s enabled branch.
C4_DisabledUntilReenabled ==
  [][ /\ (/\ stack = <<"run_spin", "init_enter">>
          /\ initialized
          /\ ~serverDescription.enableOptitrack)
        => \/ (stack' = stack /\ initialized' = initialized)
           \/ (stack' = <<"run_spin">> /\ ~initialized' /\ Disabled')
      /\ (InRun /\ ~initialized)
        => /\ publishCount' = publishCount
           /\ initialized' => (InReconfiguration /\ Top = "init_finish")
    ]_vars

\* C4 witness: Disabled after having streamed (frames were published, transport existed).
C4_Witness ==
  /\ Disabled
  /\ Top = "run_body"
  /\ publishCount > 0
  /\ reconfCount > 0

\* C5 (as claimed): in Disabled no transport is bound, also when the connection was
\* disabled after frames had been streamed.
C5_DisabledHasNoTransport ==
  (Disabled /\ rosOk) => multicastClientSocketPtr = <<>>

\* C6 (as claimed): publish() is about to be invoked only for a datagram that decoded
\* to a data frame.
C6_PublishOnlyForDataFrames ==
  Top = "run_publish" => (msgBuffer # <<>> /\ msgBuffer[1].type = "frame")

\* C6 (amended): run() invokes publish() exactly once for each datagram it receives,
\* whatever the datagram decodes to, and not when nothing was received; the rigid bodies
\* it hands over are those of the datagram when it is a data frame, none otherwise.
C6_PublishPerDatagram ==
  /\ publishCount + (IF Top = "run_publish" THEN 1 ELSE 0) = received
  /\ Top = "run_publish" =>
       /\ msgBuffer # <<>>
       /\ dataModel.rigidBodies =
            (IF msgBuffer[1].type = "frame" THEN msgBuffer[1].bodies ELSE <<>>)
  /\ Top # "run_publish" => dataModel.rigidBodies = <<>>

\* C6 witness: a data frame with two rigid bodies was published, then a server-info
\* datagram received in Streaming was published as an empty sequence.
C6_Witness ==
  /\ Top = "run_spin"
  /\ publishCount = 2
  /\ received = 2
  /\ msgBuffer # <<>> /\ msgBuffer[1].type = "serverinfo"
  /\ lastPublished = <<>>

\* C7: with a server that delivers its server-info reply, a handshake in progress leads
\* to Streaming unless shutdown is requested.
C7_HandshakeReachesStreaming ==
  (Top \in HandshakePcs /\ rosOk)
    ~> ((Streaming /\ hasServerInfo(dataModel)) \/ ~rosOk)

\* C7 witness: initialize() returned to main with the flag set, after a handshake that
\* sent a request and received the server-info reply.
C7_Witness ==
  /\ stack = <<"main_run">>
  /\ Streaming
  /\ rosOk
  /\ lastRequest # <<>>
  /\ msgBuffer # <<>> /\ msgBuffer[1].type = "serverinfo"

\* C8: while no ServerInfo is known and no shutdown is requested, the handshake loop
\* never leaves at its test, keeps sending a connection request in every iteration,
\* and nothing is published.
C8_HandshakeNeverGivesUp ==
  /\ [][ (Top = "hs_test" /\ rosOk /\ ~hasServerInfo(dataModel))
           => (Len(stack') = Len(stack) /\ Top' \in {"hs_test", "hs_send"}) ]_vars
  /\ [][ (Top = "hs_send" /\ Len(stack') = Len(stack) /\ Top' # "hs_send")
           => (Top' = "hs_recv" /\ lastRequest' # <<>>) ]_vars
  /\ (Top \in HandshakePcs)
       ~> (Top = "hs_recv" \/ ~rosOk \/ hasServerInfo(dataModel))
  /\ []((Top \in HandshakePcs /\ ~hasServerInfo(dataModel)) => publishCount = 0)

\* C8 witness: main's handshake, no version hint, no reconfiguration, a request sent and
\* nothing received.
C8_Witness ==
  /\ stack = <<"main_run", "hs_spin">>
  /\ serverDescription.version = <<>>
  /\ reconfCount = 0
  /\ rosOk
  /\ ~hasServerInfo(dataModel)
  /\ lastRequest # <<>>
  /\ msgBuffer = <<>>

\* C9: after shutdown is requested the program terminates, and a loop test executed
\* after the request never starts another iteration (no send, no receive, no publish).
C9_ShutdownTerminates ==
  /\ (~rosOk) ~> (stack = <<"done">>)
  /\ [][ (~rosOk /\ Top \in {"hs_test", "run_test"})
           => Top' \notin {"hs_send", "run_body"} ]_vars

\* C9 witness: shutdown ended a handshake entered from a callback nested in another
\* handshake.
C9_Witness ==
  /\ ~rosOk
  /\ Len(stack) = 3
  /\ stack[2] = "hs_spin"
  /\ Top = "init_finish"
  /\ ~hasServerInfo(dataModel)

\* C10 (as claimed): getNatNetVersion() is called, and the dispatcher is built, only
\* with ServerInfo present.
C10_VersionReadWithServerInfo ==
  /\ (Constructed /\ Top = "init_finish") => hasServerInfo(dataModel)
  /\ (InRun /\ Streaming) => hasServerInfo(dataModel)

\* C11 (as claimed): when reconfigureCallback returns, the state matches the stored
\* description: the flag is clear if the description is disabled; otherwise the flag is
\* set and the transport is bound to the description's (dataPort, multicastIpAddress).
C11_CallbackReturnMatchesDescription ==
  [][ (Constructed /\ InReconfiguration /\ Len(stack') < Len(stack))
        => IF serverDescription'.enableOptitrack
           THEN /\ initialized'
                /\ multicastClientSocketPtr' =
                     <<UdpMulticastSocket(serverDescription'.dataPort,
                                          serverDescription'.multicastIpAddress)>>
           ELSE ~initialized'
    ]_vars

\* C12 (as claimed): a reconfiguration started while Streaming whose bind fails leaves
\* the previously stored description and its bound transport in place.
C12_FailedReconfigurationRollsBack ==
  [][ (reconfCount' # reconfCount /\ stack' = stack)
        => /\ serverDescription' = serverDescription
           /\ multicastClientSocketPtr' = multicastClientSocketPtr
           /\ multicastClientSocketPtr' # <<>>
    ]_vars

C14_VersionHintSkipsHandshake ==
  /\ [](serverDescription.version # <<>>
          => \A i \in 1..Len(stack) : stack[i] \notin {"hs_send", "hs_recv", "hs_spin"})
  /\ [][ (Top = "init_reset" /\ serverDescription.version # <<>> /\ stack' # stack)
           => /\ Top' = "hs_test"
              /\ multicastClientSocketPtr' =
                   <<UdpMulticastSocket(serverDescription.dataPort,
                                        serverDescription.multicastIpAddress)>>
              /\ hasServerInfo(dataModel')
              /\ getNatNetVersion(dataModel') = serverDescription.version[1]
              /\ lastRequest' = lastRequest /\ msgBuffer' = msgBuffer ]_vars
  /\ [][ (Top = "hs_test" /\ serverDescription.version # <<>> /\ stack' # stack)
           => /\ Top' = "init_finish"
              /\ lastRequest' = lastRequest /\ msgBuffer' = msgBuffer ]_vars
  /\ [][ (Top = "init_finish" /\ serverDescription.version # <<>> /\ stack' # stack)
           => /\ Len(stack') < Len(stack)
              /\ initialized' /\ Streaming'
              /\ lastRequest' = lastRequest /\ msgBuffer' = msgBuffer ]_vars

\* C14 witness: main's initialize() returned in Streaming with a hinted version, with no
\* connection request ever sent and no datagram ever received.
C14_Witness ==
  /\ stack = <<"main_run">>
  /\ serverDescription.version = <<3>>
  /\ Streaming
  /\ hasServerInfo(dataModel) /\ getNatNetVersion(dataModel) = 3
  /\ multicastClientSocketPtr =
       <<UdpMulticastSocket(serverDescription.dataPort,
                            serverDescription.multicastIpAddress)>>
  /\ lastRequest = <<>>
  /\ msgBuffer = <<>>

\* C15: run() handles one datagram at a time, in the order received: a receive is
\* followed by its publish() before the next receive; publish() carries exactly the
\* rigid bodies decoded from the datagram just received (none when it is not a data
\* frame); and at every receive, in run() or in the handshake, the model's rigid-body
\* slot is empty, so nothing decoded earlier is carried into a later publish().
C15_PublishCarriesLatestDatagramOnly ==
  /\ [][ (received' # received)
           => (publishCount = received /\ Top' = "run_publish"
               /\ received' = received + 1) ]_vars
  /\ [][ (publishCount' # publishCount)
           => /\ received = publishCount + 1
              /\ msgBuffer # <<>>
              /\ lastPublished' =
                   (IF msgBuffer[1].type = "frame" THEN msgBuffer[1].bodies ELSE <<>>)
     ]_vars
  /\ [](Top \in {"run_body", "hs_recv"} => dataModel.rigidBodies = <<>>)

\* C15 witness: a frame with two rigid bodies was published; the next datagram is not a
\* data frame and is about to be published with an empty model.
C15_Witness ==
  /\ Top = "run_publish"
  /\ publishCount = 1
  /\ lastPublished = <<1, 2>>
  /\ msgBuffer # <<>> /\ msgBuffer[1].type = "unknown"
  /\ dataModel.rigidBodies = <<>>

\* C16: the stored description and the transport are replaced only while every loop
\* that has started an iteration is stopped inside its ros::spinOnce(): never between a
\* loop's receive and the end of its publish/clear; and when a loop sends or receives,
\* no replacement of the transport is in progress.
C16_ReconfigurationOnlyAtSpinOnce ==
  /\ [][ (serverDescription' # serverDescription
            \/ multicastClientSocketPtr' # multicastClientSocketPtr
            \/ newSocket' # newSocket)
           => \A i \in 1..Len(stack) :
                (stack[i] \in HandshakePcs \cup RunPcs /\ i < Len(stack))
                  => stack[i] \in {"hs_spin", "run_spin"} ]_vars
  /\ [][ (serverDescription' # serverDescription /\ Constructed)
           => Top \in {"hs_spin", "run_spin"} ]_vars
  /\ [][ (multicastClientSocketPtr' # multicastClientSocketPtr \/ newSocket' # newSocket)
           => Top \in {"init_enter", "init_reset"} ]_vars
  /\ [](\A i \in 1..(Len(stack) - 1) :
          stack[i] \in {"ctor_assign", "main_run", "hs_spin", "run_spin"})
  /\ [](Top \in {"hs_send", "hs_recv", "run_body", "run_publish"} => newSocket = <<>>)

\* C16 witness: a reconfiguration delivered from run()'s spinOnce, after a frame was
\* published, has replaced the transport with one bound to another endpoint.
C16_Witness ==
  /\ stack = <<"run_spin", "hs_test">>
  /\ publishCount > 0
  /\ reconfCount = 1
  /\ lastRequest # <<>>
  /\ multicastClientSocketPtr # <<>>
  /\ multicastClientSocketPtr[1] # lastRequest[1].socket

\* C17 (as claimed): once a disabling reconfiguration was delivered to a handshake, that
\* handshake is abandoned: no connection request is sent and initialize() does not go
\* on to set the flag while the stored description is disabled, and run() never has the
\* flag set with a disabled description.
C17_DisableAbandonsHandshake ==
  /\ (Constructed /\ Top \in {"hs_send", "init_finish"})
       => serverDescription.enableOptitrack
  /\ (InRun /\ Len(stack) = 1 /\ initialized) => serverDescription.enableOptitrack

\* The transport in use is the one bound to the stored description's endpoint.
TransportMatchesDescription ==
  multicastClientSocketPtr =
    <<UdpMulticastSocket(serverDescription.dataPort, serverDescription.multicastIpAddress)>>

\* C18 (as claimed): whenever a connection request is sent or a receive is performed,
\* the transport is the one bound to the stored description's (dataPort,
\* multicastIpAddress), and a request that was sent went to its commandPort.
C18_TransportBoundToActiveDescription ==
  /\ (Constructed /\ Top \in {"hs_send", "hs_recv"}) => TransportMatchesDescription
  /\ (Constructed /\ Top = "run_body" /\ initialized) => TransportMatchesDescription
  /\ (Constructed /\ Top = "hs_recv")
       => (lastRequest # <<>> /\ lastRequest[1].port = serverDescription.commandPort)

C20_PointersExistWhenUsed ==
  /\ Top \in {"hs_send", "hs_recv"} => multicastClientSocketPtr # <<>>
  /\ (Top = "run_body" /\ initialized) => multicastClientSocketPtr # <<>>
  /\ Top = "run_publish" => publishDispatcherPtr # <<>>
  /\ (stack[1] \in RunPcs \cup {"main_run", "done"} /\ initialized)
       => (multicastClientSocketPtr # <<>> /\ publishDispatcherPtr # <<>>)

\* C20 witness: run() is about to publish a received datagram, after a handshake that
\* sent a request: send, receive and publish have all been executed.
C20_Witness ==
  /\ stack = <<"run_publish">>
  /\ initialized
  /\ lastRequest # <<>>
  /\ received = 1
  /\ multicastClientSocketPtr # <<>>
  /\ publishDispatcherPtr # <<>>

====
